---- MODULE Spec2Model ----
(***************************************************************************)
(* redis-proxy: an authenticating TCP relay in front of a Redis server.    *)
(*                                                                         *)
(* One handler task per accepted client (Server.handle_server awaiting     *)
(* Client.connect), and per session two relay tasks (Pipe.flow), all run   *)
(* by one asyncio event loop.  A step of a task runs from one await that   *)
(* suspends to the next: a read of a non-empty buffer and a wait_closed()  *)
(* of a lost connection return at once, a drain() may suspend.  The model  *)
(* interleaves the tasks' steps with the peers' moves (a peer sends a      *)
(* byte, half-closes, resets) and with the transport's connection_lost     *)
(* callback, which ends a wait_closed().                                   *)
(*                                                                         *)
(* Streams carry tokens.  The acknowledgment "+OK\r\n" is the two tokens   *)
(* "+OK" and "\r\n", so that a read can return part of it; every other     *)
(* message is one token.                                                   *)
(***************************************************************************)
EXTENDS Naturals, Sequences, FiniteSets, TLC

\* ---------------------------------------------------------------- bounds

\* Bytes each peer may send on a connection, beyond the upstream's reply.
MaxData == 2
\* Stands for the relay's read size, 2**16 (Pipe.flow).
RelayReadMax == 2
\* Stands for the authentication read size, 1024 (Client.authenticate).
AuthReadMax == 3

\* ------------------------------------------------------------ vocabulary

\* The sessions the listener may accept, concurrently.
Sessions == {"A", "B"}
\* The sessions of the single-session specification.
Solo == {"A"}

Conns == {"cli", "up"}
Dirs == {"c2s", "s2c"}

\* args.upstream_password when --upstream-password is not given.
None == "<None>"
Passwords == {"secret", None}

Ack == <<"+OK", "\r\n">>
ErrReply == <<"-ERR invalid password\r\n">>
WrongPass == "-WRONGPASS unable to auto-authenticate\r\n"

ClientBytes == <<"c1", "c2", "c3", "c4">>
UpstreamBytes == <<"u1", "u2", "u3", "u4">>

Min(a, b) == IF a <= b THEN a ELSE b
Take(q, n) == SubSeq(q, 1, Min(n, Len(q)))
Drop(q, n) == SubSeq(q, Min(n, Len(q)) + 1, Len(q))
IsPrefix(p, q) == Len(p) <= Len(q) /\ SubSeq(q, 1, Len(p)) = p

\* How many bytes each peer may send in a session: MaxData with one client,
\* and with several clients one byte from each client and the reply alone
\* from each upstream.  With one client the sockets of the session may be
\* slow (a write may stay in the transport's buffer); with several clients
\* every write goes out at once.
SoloLimit == [cli |-> MaxData, up |-> MaxData, slow |-> BOOLEAN]
AllLimit == [cli |-> 1, up |-> 0, slow |-> {FALSE}]

\* What the upstream may send over the life of a connection: the
\* acknowledgment and then up to n bytes of data, or an error reply.
UpScripts(n) == {Ack \o Take(UpstreamBytes, n), ErrReply}

\* ----------------------------------------------------------------- state

VARIABLES
    password,   \* UpstreamClientFactory.password
    hpc,        \* per session: where handle_server / Client.connect stands
    rpc,        \* per session and direction: where the Pipe.flow task stands
    cancelReq,  \* task.cancel() was called and CancelledError not yet thrown in
    pending,    \* the pending set asyncio.wait returned to Client.connect
    peer,       \* per connection: "none", "open", "eof" (peer sent FIN), "reset"
    script,     \* what the upstream of the session sends
    sent,       \* per connection: how many tokens the peer has sent
    buf,        \* per connection: the StreamReader's buffer
    results,    \* what the authentication read returned
    wrote,      \* per connection: everything written to the StreamWriter
    closed,     \* per connection: StreamWriter.close() was called
    lost,       \* per connection: connection_lost was delivered
    slow,       \* per session: the sockets may leave written data buffered
    unsent,     \* per connection: tokens in the transport's write buffer
    got,        \* per relay: everything reader.read() has returned to it
    explicitClose  \* per session: Client.connect reached its writer.close()

vars == <<password, hpc, rpc, cancelReq, pending, peer, script, sent, buf,
          results, wrote, closed, lost, slow, unsent, got, explicitClose>>

\* Mutant of Src: both relays are given the client's reader.
SrcSame(d) == "cli"

\* A relay's source and destination (Client.connect: c2s reads the client
\* and writes the upstream, s2c the reverse).
Src(d) == IF d = "c2s" THEN "cli" ELSE "up"
Dst(d) == IF d = "c2s" THEN "up" ELSE "cli"
Other(d) == IF d = "c2s" THEN "s2c" ELSE "c2s"

\* The value of results before Client.authenticate has read the reply.
Unread == <<"<unread>">>

\* Task ended: returned, raised, or was cancelled.
Finished == {"done", "failed", "cancelled"}
\* In the finally block, awaiting wait_closed(); the suffix is how flow left
\* its loop.
Closing == {"closing_ok", "closing_err", "closing_can"}

\* str(password) inside the f-string.
Str(pw) == IF pw = None THEN "None" ELSE pw

\* Mutant of EofFed: the end of the stream goes unnoticed.
EofMissed(s, c) == FALSE

\* Mutant of EofFed: a read that finds nothing within some delay is taken
\* for the end of the stream.
EofWhenIdle(s, c) == TRUE

\* StreamReader.at_eof(): EOF was fed and the buffer is empty.  EOF is fed
\* when the peer half-closes and when the transport is lost without error.
EofFed(s, c) == peer[s][c] = "eof" \/ (lost[s][c] /\ peer[s][c] # "reset")
AtEof(s, c) == EofFed(s, c) /\ buf[s][c] = <<>>
\* StreamReader.exception() is set: reads and drains raise.
Broken(s, c) == peer[s][c] = "reset"

\* Stands for the transport's high-water mark, 64 KiB by default: the size
\* of the relay's read.
HighWater == RelayReadMax

\* What the transport's write buffer holds after a write of n tokens: a
\* slow socket leaves them buffered until it is ready for writing.
Buffered(s, before, n) == IF slow[s] THEN before + n ELSE before

\* Mutant of DrainReady: drain() is not awaited.
DrainSkipped(s, c) == TRUE

\* drain() returns once the write buffer is not above the high-water mark.
DrainReady(s, c) == unsent[s][c] <= HighWater

Init ==
    /\ password \in Passwords
    /\ hpc = [s \in Sessions |-> "idle"]
    /\ rpc = [s \in Sessions |-> [d \in Dirs |-> "none"]]
    /\ cancelReq = [s \in Sessions |-> [d \in Dirs |-> FALSE]]
    /\ pending = [s \in Sessions |-> {}]
    /\ peer = [s \in Sessions |-> [c \in Conns |-> "none"]]
    /\ script = [s \in Sessions |-> <<>>]
    /\ sent = [s \in Sessions |-> [c \in Conns |-> 0]]
    /\ buf = [s \in Sessions |-> [c \in Conns |-> <<>>]]
    /\ results = [s \in Sessions |-> Unread]
    /\ wrote = [s \in Sessions |-> [c \in Conns |-> <<>>]]
    /\ closed = [s \in Sessions |-> [c \in Conns |-> FALSE]]
    /\ lost = [s \in Sessions |-> [c \in Conns |-> FALSE]]
    /\ slow = [s \in Sessions |-> FALSE]
    /\ unsent = [s \in Sessions |-> [c \in Conns |-> 0]]
    /\ got = [s \in Sessions |-> [d \in Dirs |-> <<>>]]
    /\ explicitClose = [s \in Sessions |-> FALSE]

\* -------------------------------------------------- Server.handle_server

\* How handle_server ends once wait_closed() on the client writer ends: it
\* returns, or wait_closed raises the error the connection was lost with.
HandlerEnd(s) == IF Broken(s, "cli") THEN "raised_error" ELSE "done"

\* Where handle_server stands after writer.close(): in wait_closed(), or
\* past it when the connection is already lost.
HandlerAfterClose(s) == IF lost[s]["cli"] THEN HandlerEnd(s) ELSE "h_wait_closed"

\* Mutant of HandlerClose: the close sits inside the try block, so that an
\* exception skips it.
HandlerNoClose(s) ==
    /\ hpc' = [hpc EXCEPT ![s] = "done"]
    /\ UNCHANGED closed

\* The except clause and what follows it: the exception is logged, the
\* client writer is closed and wait_closed() awaited.
HandlerClose(s) ==
    /\ closed' = [closed EXCEPT ![s]["cli"] = TRUE]
    /\ hpc' = [hpc EXCEPT ![s] = HandlerAfterClose(s)]

\* asyncio.start_server calls handle_server for a new client; the handler
\* awaits Client.connect, which awaits asyncio.open_connection.
handle_server(s) ==
    /\ hpc[s] = "idle"
    /\ hpc' = [hpc EXCEPT ![s] = "connecting"]
    /\ peer' = [peer EXCEPT ![s]["cli"] = "open"]
    /\ UNCHANGED <<password, rpc, cancelReq, pending, script, sent, buf,
                   results, wrote, closed, lost,
                   slow, unsent, got, explicitClose>>

\* The handler's wait_closed() on the client writer ends: the handler
\* returns, or wait_closed raises the error the connection was lost with.
handle_server_closed(s) ==
    /\ hpc[s] = "h_wait_closed"
    /\ lost[s]["cli"]
    /\ hpc' = [hpc EXCEPT ![s] = HandlerEnd(s)]
    /\ UNCHANGED <<password, rpc, cancelReq, pending, peer, script, sent, buf,
                   results, wrote, closed, lost,
                   slow, unsent, got, explicitClose>>

\* ------------------------------------------------------ Client.connect

\* f"AUTH {password}\r\n"
AuthRequest(pw) == "AUTH " \o Str(pw) \o "\r\n"

\* Mutant of AuthOk: results.startswith(b"+OK").
AuthOkFirstToken(r) == r # <<>> /\ r[1] = Ack[1]

\* Mutant of AuthOk: results.startswith(b"+OK\r\n").
AuthOkLax(r) == IsPrefix(Ack, r)

\* results != b"+OK\r\n" is the failure branch.
AuthOk(r) == r = Ack

\* open_connection succeeded; authenticate writes the AUTH request and
\* awaits drain().
connect_opened(s, lim) ==
    /\ hpc[s] = "connecting"
    /\ \E sc \in UpScripts(lim.up) : script' = [script EXCEPT ![s] = sc]
    /\ peer' = [peer EXCEPT ![s]["up"] = "open"]
    /\ wrote' = [wrote EXCEPT ![s]["up"] = Append(@, AuthRequest(password))]
    /\ \E sl \in lim.slow :
           /\ slow' = [slow EXCEPT ![s] = sl]
           /\ unsent' = [unsent EXCEPT ![s]["up"] = IF sl THEN 1 ELSE 0]
    /\ hpc' = [hpc EXCEPT ![s] = "auth_drain"]
    /\ UNCHANGED <<password, rpc, cancelReq, pending, sent, buf, results,
                   closed, lost, got, explicitClose>>

\* open_connection raised (upstream unreachable): the handler catches it.
connect_unreachable(s) ==
    /\ hpc[s] = "connecting"
    /\ HandlerClose(s)
    /\ UNCHANGED <<password, rpc, cancelReq, pending, peer, script, sent, buf,
                   results, wrote, lost,
                   slow, unsent, got, explicitClose>>

\* drain() of the AUTH request ends: it raises on a broken upstream,
\* otherwise authenticate awaits reader.read(1024).
authenticate_drained(s) ==
    /\ hpc[s] = "auth_drain"
    /\ Broken(s, "up") \/ DrainReady(s, "up")
    /\ IF Broken(s, "up")
       THEN HandlerClose(s)
       ELSE hpc' = [hpc EXCEPT ![s] = "auth_read"] /\ UNCHANGED closed
    /\ UNCHANGED <<password, rpc, cancelReq, pending, peer, script, sent, buf,
                   results, wrote, lost,
                   slow, unsent, got, explicitClose>>

\* Mutant of RejectWrite: the rejection is not written.
RejectWriteNothing(before) == before

\* peer_writer.write(b"-WRONGPASS unable to auto-authenticate\r\n")
RejectWrite(before) == Append(before, WrongPass)

\* The tasks list of Client.connect: both relays are created.
StartRelays(s) ==
    /\ rpc' = [rpc EXCEPT ![s] = [d \in Dirs |-> "ready"]]
    /\ hpc' = [hpc EXCEPT ![s] = "waiting"]

\* reader.read(1024) ends.  It raises on a broken upstream; otherwise it
\* returns what is buffered (nothing at EOF).  On "+OK\r\n" connect goes on
\* to start the relays and awaits asyncio.wait; on anything else the
\* rejection is written to the client and drain() awaited.
authenticate_read(s) ==
    /\ hpc[s] = "auth_read"
    /\ Broken(s, "up") \/ buf[s]["up"] # <<>> \/ EofFed(s, "up")
    /\ IF Broken(s, "up")
       THEN /\ HandlerClose(s)
            /\ UNCHANGED <<buf, results, wrote, rpc, unsent>>
       ELSE LET r == Take(buf[s]["up"], AuthReadMax) IN
            /\ results' = [results EXCEPT ![s] = r]
            /\ buf' = [buf EXCEPT ![s]["up"] = Drop(@, AuthReadMax)]
            /\ IF AuthOk(r)
               THEN StartRelays(s) /\ UNCHANGED <<wrote, unsent>>
               ELSE /\ wrote' = [wrote EXCEPT ![s]["cli"] = RejectWrite(@)]
                    /\ unsent' = [unsent EXCEPT ![s]["cli"] =
                                    Buffered(s, @, Len(RejectWrite(<<>>)))]
                    /\ hpc' = [hpc EXCEPT ![s] = "reject_drain"]
                    /\ UNCHANGED rpc
            /\ UNCHANGED closed
    /\ UNCHANGED <<password, cancelReq, pending, peer, script, sent, lost,
                   slow, got, explicitClose>>

\* drain() of the rejection ends (or raises); authenticate raises
\* RuntimeError, which the handler catches.
authenticate_rejected(s) ==
    /\ hpc[s] = "reject_drain"
    /\ Broken(s, "cli") \/ DrainReady(s, "cli")
    /\ HandlerClose(s)
    /\ UNCHANGED <<password, rpc, cancelReq, pending, peer, script, sent, buf,
                   results, wrote, lost,
                   slow, unsent, got, explicitClose>>

\* The end of Client.connect: the upstream writer is closed and
\* wait_closed() awaited.  When the connection is already lost wait_closed
\* ends at once, and returning or raising, connect hands over to the
\* handler's close.
ConnectClose(s) ==
    /\ explicitClose' = [explicitClose EXCEPT ![s] = TRUE]
    /\ IF lost[s]["up"]
       THEN /\ closed' = [closed EXCEPT ![s] = [c \in Conns |-> TRUE]]
            /\ hpc' = [hpc EXCEPT ![s] = HandlerAfterClose(s)]
       ELSE /\ closed' = [closed EXCEPT ![s]["up"] = TRUE]
            /\ hpc' = [hpc EXCEPT ![s] = "up_wait_closed"]

\* Mutant of Pending: nothing is taken to be pending, nothing is cancelled.
PendingNone(s) == {}

\* Mutant of Pending: every unfinished relay of the process is taken to be
\* pending (asyncio.all_tasks() in place of the session's own tasks).
PendingAll(s) ==
    {t \in Sessions \X Dirs : rpc[t[1]][t[2]] \notin Finished \cup {"none"}}

\* The pending set of asyncio.wait(tasks, FIRST_COMPLETED), as Client.connect
\* sees it when it resumes: the session's tasks that have not ended.
Pending(s) == {t \in {s} \X Dirs : rpc[t[1]][t[2]] \notin Finished}

\* asyncio.wait(tasks, return_when=asyncio.FIRST_COMPLETED) is over: some
\* task has ended, by returning or by raising.
FirstCompleted(s) == \E d \in Dirs : rpc[s][d] \in Finished

\* asyncio.wait returns once a relay has ended.  The loop runs callbacks in
\* the order they were scheduled, so both relays have run their first step
\* by then.  Every pending task is cancelled.  With nothing pending,
\* gather() is done at once and connect closes the upstream writer.
connect_first_completed(s) ==
    /\ hpc[s] = "waiting"
    /\ FirstCompleted(s)
    /\ \A d \in Dirs : rpc[s][d] # "ready"
    /\ cancelReq' = [x \in Sessions |-> [d \in Dirs |->
                       IF <<x, d>> \in Pending(s) THEN TRUE ELSE cancelReq[x][d]]]
    /\ pending' = [pending EXCEPT ![s] = Pending(s)]
    /\ IF Pending(s) = {}
       THEN ConnectClose(s)
       ELSE /\ hpc' = [hpc EXCEPT ![s] = "gathering"]
            /\ UNCHANGED <<closed, explicitClose>>
    /\ UNCHANGED <<password, rpc, peer, script, sent, buf, results, wrote, lost,
                   slow, unsent, got>>

\* How `await asyncio.gather(*pending)` ends once the pending tasks have:
\* a cancelled child makes it raise CancelledError, a failed child its
\* exception; otherwise it returns.
GatherOutcome(s) ==
    IF \E t \in pending[s] : rpc[t[1]][t[2]] = "cancelled" THEN "cancelled"
    ELSE IF \E t \in pending[s] : rpc[t[1]][t[2]] = "failed" THEN "failed"
    ELSE "returned"

\* handle_server's `except Exception`: CancelledError is a BaseException
\* and is not caught.
Caught(outcome) == outcome = "failed"

\* Mutant of GatherDone: the gather is not awaited.
GatherDoneEarly(s) == TRUE

\* `await asyncio.gather(*pending)` ends once every pending task has.
GatherDone(s) == \A t \in pending[s] : rpc[t[1]][t[2]] \in Finished

\* gather ends.  CancelledError leaves Client.connect and handle_server
\* without running the rest of either; an Exception is caught by the
\* handler; a return leads to the close of the upstream writer.
connect_gathered(s) ==
    /\ hpc[s] = "gathering"
    /\ GatherDone(s)
    /\ IF GatherOutcome(s) = "returned"
       THEN ConnectClose(s)
       ELSE IF Caught(GatherOutcome(s))
       THEN HandlerClose(s) /\ UNCHANGED explicitClose
       ELSE /\ hpc' = [hpc EXCEPT ![s] = "raised_cancelled"]
            /\ UNCHANGED <<closed, explicitClose>>
    /\ UNCHANGED <<password, rpc, cancelReq, pending, peer, script, sent, buf,
                   results, wrote, lost, slow, unsent, got>>

\* connect's wait_closed() on the upstream writer ends; connect returns, or
\* raises the error the connection was lost with, and the handler goes on
\* to its close either way.  No behaviour suspends there (ConnectNeverWaits
\* below): connect closes the upstream writer only after the outbound relay
\* has ended past its own wait_closed() of that writer, so this step is not
\* among the disjuncts of HandlerStep.
connect_closed(s) ==
    /\ hpc[s] = "up_wait_closed"
    /\ lost[s]["up"]
    /\ HandlerClose(s)
    /\ UNCHANGED <<password, rpc, cancelReq, pending, peer, script, sent, buf,
                   results, wrote, lost,
                   slow, unsent, got, explicitClose>>

\* ------------------------------------------------------------ Pipe.flow

\* How the task ends when wait_closed() in the finally block ends; `how`
\* records how the loop was left.  wait_closed raises the error the
\* destination was lost with.
FlowEnd(s, d, how) ==
    IF Broken(s, Dst(d)) THEN "failed"
    ELSE IF how = "closing_ok" THEN "done"
    ELSE IF how = "closing_err" THEN "failed"
    ELSE "cancelled"

\* Mutant of FlowFinally: the close follows the loop instead of sitting in
\* a finally block, so that only a clean end of the loop reaches it.
FlowCloseAtEofOnly(s, d, how) ==
    /\ closed' = [closed EXCEPT ![s][Dst(d)] = @ \/ how = "closing_ok"]
    /\ rpc' = [rpc EXCEPT ![s][d] =
                 IF lost[s][Dst(d)] THEN FlowEnd(s, d, how) ELSE how]

\* Mutant of FlowFinally: the cleanup sits in `except Exception`, which a
\* cancellation does not enter.
FlowExceptOnly(s, d, how) ==
    /\ closed' = [closed EXCEPT ![s][Dst(d)] = @ \/ how # "closing_can"]
    /\ rpc' = [rpc EXCEPT ![s][d] =
                 IF lost[s][Dst(d)] THEN FlowEnd(s, d, how) ELSE how]

\* The finally block: the destination writer is closed and wait_closed()
\* awaited, which ends at once when the connection is already lost.
FlowFinally(s, d, how) ==
    /\ closed' = [closed EXCEPT ![s][Dst(d)] = TRUE]
    /\ rpc' = [rpc EXCEPT ![s][d] =
                 IF lost[s][Dst(d)] THEN FlowEnd(s, d, how) ELSE how]

\* The chunk a read returns: reader.read(2**16) of a non-empty buffer.
ReadChunk(q) == Take(q, RelayReadMax)

\* Mutant of WriteChunk: the chunk is written twice.
WriteChunkTwice(before, data) == before \o data \o data

\* Mutant of WriteChunk: a partial write, only the first byte goes out.
WriteChunkPartial(before, data) == before \o Take(data, 1)

\* What the writer has been given once `data` is written after `before`.
WriteChunk(before, data) == before \o data

\* data was read: it is written to the destination and drain() awaited.
FlowForward(s, d) ==
    /\ buf' = [buf EXCEPT ![s][Src(d)] = Drop(@, Len(ReadChunk(@)))]
    /\ got' = [got EXCEPT ![s][d] = @ \o ReadChunk(buf[s][Src(d)])]
    /\ wrote' = [wrote EXCEPT ![s][Dst(d)] =
                   WriteChunk(@, ReadChunk(buf[s][Src(d)]))]
    /\ unsent' = [unsent EXCEPT ![s][Dst(d)] =
                    Buffered(s, @, Len(wrote'[s][Dst(d)]) - Len(wrote[s][Dst(d)]))]
    /\ rpc' = [rpc EXCEPT ![s][d] = "draining"]
    /\ UNCHANGED closed

\* The loop from its test on: at EOF the loop ends; a broken source makes
\* the read raise; buffered data is read and forwarded; otherwise the read
\* suspends.
FlowLoop(s, d) ==
    IF AtEof(s, Src(d))
    THEN FlowFinally(s, d, "closing_ok") /\ UNCHANGED <<buf, wrote, unsent, got>>
    ELSE IF Broken(s, Src(d))
    THEN FlowFinally(s, d, "closing_err") /\ UNCHANGED <<buf, wrote, unsent, got>>
    ELSE IF buf[s][Src(d)] # <<>>
    THEN FlowForward(s, d)
    ELSE /\ rpc' = [rpc EXCEPT ![s][d] = "reading"]
         /\ UNCHANGED <<buf, wrote, closed, unsent, got>>

\* CancelledError is thrown into the task at the await it is suspended in:
\* the finally block runs.
FlowCancelled(s, d) ==
    /\ FlowFinally(s, d, "closing_can")
    /\ cancelReq' = [cancelReq EXCEPT ![s][d] = FALSE]
    /\ UNCHANGED <<buf, wrote, unsent, got>>

\* Both tasks have run their first step.  The event loop runs the two new
\* tasks one after the other, before any task that a later event wakes.
Started(s) == \A d \in Dirs : rpc[s][d] # "ready"

\* The task's first step.  The tasks run in the order Client.connect
\* created them: s2c, then c2s.
flow_start(s, d) ==
    /\ rpc[s][d] = "ready"
    /\ d = "c2s" => rpc[s]["s2c"] # "ready"
    /\ FlowLoop(s, d)
    /\ UNCHANGED <<password, hpc, cancelReq, pending, peer, script, sent,
                   results, lost, slow, explicitClose>>

\* `await self.reader.read(2**16)` ends.  A cancellation is thrown in
\* first; a broken source raises; data is forwarded; an empty read is EOF.
flow_read(s, d) ==
    /\ rpc[s][d] = "reading"
    /\ Started(s)
    /\ \/ cancelReq[s][d]
       \/ Broken(s, Src(d))
       \/ buf[s][Src(d)] # <<>>
       \/ EofFed(s, Src(d))
    /\ IF cancelReq[s][d]
       THEN FlowCancelled(s, d)
       ELSE IF Broken(s, Src(d))
       THEN /\ FlowFinally(s, d, "closing_err")
            /\ UNCHANGED <<cancelReq, buf, wrote, unsent, got>>
       ELSE IF buf[s][Src(d)] # <<>>
       THEN FlowForward(s, d) /\ UNCHANGED cancelReq
       ELSE /\ FlowFinally(s, d, "closing_ok")
            /\ UNCHANGED <<cancelReq, buf, wrote, unsent, got>>
    /\ UNCHANGED <<password, hpc, pending, peer, script, sent, results, lost,
                   slow, explicitClose>>

\* `await self.writer.drain()` ends.  A cancellation is thrown in first; a
\* broken destination raises; otherwise drain returns when the write buffer
\* is not above the high-water mark, and the loop goes round.
flow_drained(s, d) ==
    /\ rpc[s][d] = "draining"
    /\ Started(s)
    /\ cancelReq[s][d] \/ Broken(s, Dst(d)) \/ DrainReady(s, Dst(d))
    /\ IF cancelReq[s][d]
       THEN FlowCancelled(s, d)
       ELSE IF Broken(s, Dst(d))
       THEN /\ FlowFinally(s, d, "closing_err")
            /\ UNCHANGED <<cancelReq, buf, wrote, unsent, got>>
       ELSE FlowLoop(s, d) /\ UNCHANGED cancelReq
    /\ UNCHANGED <<password, hpc, pending, peer, script, sent, results, lost,
                   slow, explicitClose>>

\* `await self.writer.wait_closed()` in the finally block ends: a
\* cancellation is thrown in, or the connection was lost.
flow_closed(s, d) ==
    /\ rpc[s][d] \in Closing
    /\ Started(s)
    /\ cancelReq[s][d] \/ lost[s][Dst(d)]
    /\ rpc' = [rpc EXCEPT ![s][d] =
                 IF cancelReq[s][d] THEN "cancelled" ELSE FlowEnd(s, d, @)]
    /\ cancelReq' = [cancelReq EXCEPT ![s][d] = FALSE]
    /\ UNCHANGED <<password, hpc, pending, peer, script, sent, buf, results,
                   wrote, closed, lost,
                   slow, unsent, got, explicitClose>>

\* ------------------------------------------------ peers and transports

\* The client sends its next byte; the transport reads until it is closed.
client_send(s, lim) ==
    /\ peer[s]["cli"] = "open"
    /\ ~closed[s]["cli"]
    /\ sent[s]["cli"] < lim.cli
    /\ sent' = [sent EXCEPT ![s]["cli"] = @ + 1]
    /\ buf' = [buf EXCEPT ![s]["cli"] = Append(@, ClientBytes[sent[s]["cli"] + 1])]
    /\ UNCHANGED <<password, hpc, rpc, cancelReq, pending, peer, script,
                   results, wrote, closed, lost,
                   slow, unsent, got, explicitClose>>

\* The upstream sends the next token of its script.
upstream_send(s) ==
    /\ peer[s]["up"] = "open"
    /\ ~closed[s]["up"]
    /\ sent[s]["up"] < Len(script[s])
    /\ sent' = [sent EXCEPT ![s]["up"] = @ + 1]
    /\ buf' = [buf EXCEPT ![s]["up"] = Append(@, script[s][sent[s]["up"] + 1])]
    /\ UNCHANGED <<password, hpc, rpc, cancelReq, pending, peer, script,
                   results, wrote, closed, lost,
                   slow, unsent, got, explicitClose>>

\* A peer closes its sending side: the reader is fed EOF.
peer_eof(s, c) ==
    /\ peer[s][c] = "open"
    /\ ~closed[s][c]
    /\ peer' = [peer EXCEPT ![s][c] = "eof"]
    /\ UNCHANGED <<password, hpc, rpc, cancelReq, pending, script, sent, buf,
                   results, wrote, closed, lost,
                   slow, unsent, got, explicitClose>>

\* A connection breaks: connection_lost(exc) sets the reader's exception,
\* and what the write buffer held is dropped.
peer_reset(s, c) ==
    /\ peer[s][c] \in {"open", "eof"}
    /\ ~lost[s][c]
    /\ peer' = [peer EXCEPT ![s][c] = "reset"]
    /\ lost' = [lost EXCEPT ![s][c] = TRUE]
    /\ unsent' = [unsent EXCEPT ![s][c] = 0]
    /\ UNCHANGED <<password, hpc, rpc, cancelReq, pending, script, sent, buf,
                   results, wrote, closed, slow, got, explicitClose>>

\* The socket is ready for writing: the transport sends what its write
\* buffer holds.
write_ready(s, c) ==
    /\ unsent[s][c] > 0
    /\ ~lost[s][c]
    /\ unsent' = [unsent EXCEPT ![s][c] = 0]
    /\ UNCHANGED <<password, hpc, rpc, cancelReq, pending, peer, script, sent,
                   buf, results, wrote, closed, lost, slow, got, explicitClose>>

\* A closed transport has flushed its write buffer: connection_lost(None).
connection_lost(s, c) ==
    /\ closed[s][c]
    /\ ~lost[s][c]
    /\ unsent[s][c] = 0
    /\ lost' = [lost EXCEPT ![s][c] = TRUE]
    /\ UNCHANGED <<password, hpc, rpc, cancelReq, pending, peer, script, sent,
                   buf, results, wrote, closed,
                   slow, unsent, got, explicitClose>>

\* -------------------------------------------------------- specifications

HandlerStep(s, lim) ==
    \/ handle_server(s)
    \/ connect_opened(s, lim)
    \/ connect_unreachable(s)
    \/ authenticate_drained(s)
    \/ authenticate_read(s)
    \/ authenticate_rejected(s)
    \/ connect_first_completed(s)
    \/ connect_gathered(s)
    \/ handle_server_closed(s)

RelayStep(s) ==
    \E d \in Dirs : flow_start(s, d) \/ flow_read(s, d) \/ flow_drained(s, d)
                    \/ flow_closed(s, d)

PeerStep(s, lim) ==
    \/ client_send(s, lim)
    \/ upstream_send(s)
    \/ \E c \in Conns : peer_eof(s, c) \/ peer_reset(s, c)

LoopStep(s) == \E c \in Conns : connection_lost(s, c) \/ write_ready(s, c)

Step(s, lim) ==
    HandlerStep(s, lim) \/ RelayStep(s) \/ PeerStep(s, lim) \/ LoopStep(s)

\* One client.
Next == \E s \in Solo : Step(s, SoloLimit)
Spec == Init /\ [][Next]_vars

\* One client, with the event loop running every task that can run, every
\* transport sending what it buffered and every closed transport ending.
\* The peers are free to stay silent.
Fairness ==
    \A s \in Solo :
        /\ WF_vars(HandlerStep(s, SoloLimit))
        /\ \A d \in Dirs : WF_vars(flow_start(s, d) \/ flow_read(s, d)
                                     \/ flow_drained(s, d) \/ flow_closed(s, d))
        /\ WF_vars(LoopStep(s))
FairSpec == Spec /\ Fairness

\* A step of a session whose sockets take every write at once: the write
\* buffers stay empty and the transports have nothing to send later.
FastStep(s) ==
    \/ HandlerStep(s, AllLimit)
    \/ RelayStep(s)
    \/ PeerStep(s, AllLimit)
    \/ \E c \in Conns : connection_lost(s, c)

\* Several clients at once, with a credential configured.
InitAll == Init /\ password = "secret"
NextAll == \E s \in Sessions : FastStep(s)
SpecAll == InitAll /\ [][NextAll]_vars

\* ---------------------------------------------------------------- claims

Range(q) == {q[i] : i \in 1..Len(q)}

\* The session's relay tasks exist.
Relaying(s) == \A d \in Dirs : rpc[s][d] # "none"
\* Some byte the client sent was written to the upstream, or some token the
\* upstream sent was written to the client.
ClientForwarded(s) == Range(wrote[s]["up"]) \cap Range(ClientBytes) # {}
UpstreamForwarded(s) == Range(wrote[s]["cli"]) \cap Range(script[s]) # {}
\* The authentication read returned something other than the acknowledgment.
Rejected(s) == results[s] \notin {Unread, Ack}
\* The handler has run its own close of the client writer.
HandlerClosed(s) == hpc[s] \in {"h_wait_closed", "done", "raised_error"}
\* The handler task has ended.
HandlerEnded(s) == hpc[s] \in {"done", "raised_cancelled", "raised_error"}

\* Client.connect never suspends in its wait_closed() of the upstream writer.
ConnectNeverWaits == \A s \in Sessions : hpc[s] # "up_wait_closed"

\* C1: with a credential configured, as long as the authentication read has
\* not returned exactly the acknowledgment, no relay task exists, no client
\* byte has been written to the upstream and no upstream byte to the client.
AuthGate ==
    \A s \in Sessions :
        (password # None /\ results[s] # Ack) =>
            /\ \A d \in Dirs : rpc[s][d] = "none"
            /\ ~ClientForwarded(s)
            /\ ~UpstreamForwarded(s)

AuthGateWitness ==
    /\ password # None
    /\ results["A"] = Ack
    /\ ClientForwarded("A")
    /\ UpstreamForwarded("A")

\* C2: with no credential configured no AUTH request is written to the
\* upstream, no reply is read, and the relays exist as soon as the upstream
\* connection is open.
NoCredentialSkipsAuth ==
    \A s \in Sessions :
        password = None =>
            /\ AuthRequest(password) \notin Range(wrote[s]["up"])
            /\ results[s] = Unread
            /\ peer[s]["up"] # "none" => Relaying(s)

\* C3: in a session whose authentication was rejected the client is written
\* exactly the rejection message, the client writer is closed only once the
\* drain of that message is over, and is closed from then on; no relay
\* exists and nothing but the AUTH request is written to the upstream.
AuthRejection ==
    \A s \in Sessions :
        Rejected(s) =>
            /\ wrote[s]["cli"] = <<WrongPass>>
            /\ hpc[s] = "reject_drain" => ~closed[s]["cli"]
            /\ hpc[s] # "reject_drain" => HandlerClosed(s) /\ closed[s]["cli"]
            /\ \A d \in Dirs : rpc[s][d] = "none"
            /\ wrote[s]["up"] = <<AuthRequest(password)>>

AuthRejectionWitness ==
    /\ Rejected("A")
    /\ hpc["A"] = "done"
    /\ sent["A"]["cli"] > 0
    /\ peer["A"]["cli"] = "open"

\* C4: after a successful authentication, what was written to the upstream
\* followed by what is still buffered from the client is exactly what the
\* client sent, in order; a relay that left its loop at end-of-stream left
\* nothing buffered; and the same holds from the upstream to the client.
Transparency ==
    \A s \in Sessions :
        results[s] = Ack =>
            /\ wrote[s]["up"] \o buf[s]["cli"] =
                   <<AuthRequest(password)>> \o Take(ClientBytes, sent[s]["cli"])
            /\ wrote[s]["cli"] \o buf[s]["up"] =
                   Drop(Take(script[s], sent[s]["up"]), Len(Ack))
            /\ \A d \in Dirs :
                   rpc[s][d] \in {"closing_ok", "done"} => buf[s][Src(d)] = <<>>

TransparencyWitness ==
    /\ results["A"] = Ack
    /\ rpc["A"]["c2s"] = "done"
    /\ sent["A"]["cli"] = MaxData
    /\ wrote["A"]["up"] = <<AuthRequest(password)>> \o Take(ClientBytes, MaxData)
    /\ wrote["A"]["cli"] = Take(UpstreamBytes, MaxData)

\* Client.connect has resumed from asyncio.wait.
PastWait(s) == Relaying(s) /\ hpc[s] # "waiting"

\* In a relaying session, once the client has closed (or its connection
\* broke) the upstream writer is eventually closed, and the other way round.
TeardownLive ==
    \A s \in Sessions :
        /\ (Relaying(s) /\ peer[s]["cli"] \in {"eof", "reset"}) ~> closed[s]["up"]
        /\ (Relaying(s) /\ peer[s]["up"] \in {"eof", "reset"}) ~> closed[s]["cli"]

\* Once one relay task has ended, nothing more is written by the other.
NoWriteAfterFirstCompleted ==
    [][\A s \in Sessions : \A d \in Dirs :
         rpc[s][d] \in Finished =>
             wrote'[s][Dst(Other(d))] = wrote[s][Dst(Other(d))]]_vars

\* Once Client.connect has resumed from asyncio.wait (and cancelled what was
\* pending), nothing more is written in the session.
NoWriteAfterCancel ==
    [][\A s \in Sessions : PastWait(s) => wrote'[s] = wrote[s]]_vars

OwnStepsOnly ==
    [][\A s \in Sessions :
         (\/ hpc'[s] # hpc[s]
          \/ rpc'[s] # rpc[s]
          \/ cancelReq'[s] # cancelReq[s]
          \/ closed'[s] # closed[s]
          \/ lost'[s] # lost[s]
          \/ wrote'[s] # wrote[s]
          \/ buf'[s] # buf[s]) => Step(s, AllLimit)]_vars

\* A client that has not been accepted yet can be, a relay that was created
\* can run, and a relay is cancelled only by its own session, after that
\* session's other relay has ended.
NeverBlocked ==
    \A s \in Sessions :
        /\ hpc[s] = "idle" => ENABLED handle_server(s)
        /\ ~Started(s) => ENABLED (\E d \in Dirs : flow_start(s, d))
        /\ \A d \in Dirs :
               cancelReq[s][d] =>
                   hpc[s] = "gathering" /\ rpc[s][Other(d)] \in Finished

\* C6: isolation.  No session closes a connection of, or cancels a relay
\* of, another session, and whatever the other sessions do (fail, or sit
\* silent) a new client can be accepted and a running session is not
\* blocked.
Isolation == OwnStepsOnly /\ []NeverBlocked

\* Session A has failed (its authentication was rejected, or its upstream
\* was unreachable or broke) and is over, while session B relays on with
\* both connections open and nothing cancelled.
IsolationWitness ==
    /\ HandlerEnded("A")
    /\ closed["A"]["cli"]
    /\ hpc["B"] = "waiting"
    /\ \A d \in Dirs : rpc["B"][d] = "reading" /\ ~cancelReq["B"][d]
    /\ \A c \in Conns : ~closed["B"][c] /\ peer["B"][c] = "open"
    /\ ClientForwarded("B")

\* C7: when the handler of a session has ended, the upstream connection the
\* session opened has been closed.
UpstreamClosedAtEnd ==
    \A s \in Sessions :
        (HandlerEnded(s) /\ peer[s]["up"] # "none") => closed[s]["up"]

\* C8: however Client.connect ends, the handler reaches its own close of the
\* client writer: no error leaves handle_server from the await of connect.
HandlerCatchesAll ==
    \A s \in Sessions : hpc[s] # "raised_cancelled"

\* The upstream connection of the session could not be opened.
Unreachable(s) == peer[s]["up"] = "none" /\ hpc[s] \notin {"idle", "connecting"}

\* C9: in a session whose upstream could not be opened no relay exists,
\* nothing is written to the client or to an upstream, the client writer is
\* closed by the handler, and a client not yet accepted can be.
UnreachableClosesClient ==
    \A s \in Sessions :
        Unreachable(s) =>
            /\ \A d \in Dirs : rpc[s][d] = "none"
            /\ \A c \in Conns : wrote[s][c] = <<>>
            /\ HandlerClosed(s) /\ closed[s]["cli"]
            /\ \A x \in Sessions : hpc[x] = "idle" => ENABLED handle_server(x)

UnreachableWitness ==
    /\ Unreachable("A")
    /\ hpc["A"] = "done"
    /\ sent["A"]["cli"] > 0
    /\ hpc["B"] = "waiting"

\* The tasks: the handler (with Client.connect and Client.authenticate
\* inside it) and the two relays of every session.
Tasks == Sessions \X ({"handler"} \cup Dirs)

\* The tasks suspended in a read of, or in a write (drain) to, stream c of
\* session s.
Reading(t, s, c) ==
    /\ t[1] = s
    /\ \/ t[2] = "handler" /\ hpc[s] = "auth_read" /\ c = "up"
       \/ t[2] \in Dirs /\ rpc[s][t[2]] = "reading" /\ Src(t[2]) = c
Writing(t, s, c) ==
    /\ t[1] = s
    /\ \/ t[2] = "handler" /\ hpc[s] = "auth_drain" /\ c = "up"
       \/ t[2] = "handler" /\ hpc[s] = "reject_drain" /\ c = "cli"
       \/ t[2] \in Dirs /\ rpc[s][t[2]] = "draining" /\ Dst(t[2]) = c
Readers(s, c) == {t \in Tasks : Reading(t, s, c)}
Writers(s, c) == {t \in Tasks : Writing(t, s, c)}

\* C10: every stream has at most one task reading it and at most one task
\* writing it.
SingleReaderWriter ==
    \A s \in Sessions : \A c \in Conns :
        /\ Cardinality(Readers(s, c)) <= 1
        /\ Cardinality(Writers(s, c)) <= 1

\* Both streams of session A are being read and written at once, each by
\* one task, while session B authenticates.
SingleReaderWriterWitness ==
    /\ rpc["A"]["c2s"] = "draining"
    /\ rpc["A"]["s2c"] = "reading"
    /\ hpc["B"] = "auth_read"
    /\ Cardinality(Writers("A", "up")) = 1
    /\ Cardinality(Readers("A", "up")) = 1
    /\ Cardinality(Readers("B", "up")) = 1

\* What relay d has written to its destination: everything written there,
\* less the AUTH request that went to the upstream before the relays.
RelayWrote(s, d) == IF d = "c2s" THEN Drop(wrote[s]["up"], 1) ELSE wrote[s]["cli"]

\* C11 as stated: a relay that has forwarded a chunk is in its next read
\* only when that chunk has been fully flushed, the destination's write
\* buffer being empty.
SingleChunkFlushedAsStated ==
    \A s \in Sessions : \A d \in Dirs :
        (rpc[s][d] = "reading" /\ got[s][d] # <<>>) => unsent[s][Dst(d)] = 0

\* C11, amended: a relay is in its next read only when the chunk it read
\* has been written and drain() has returned, the destination's write buffer
\* being no longer above its high-water mark; that buffer never holds more
\* than one chunk above the mark, and no more than one chunk is ever held
\* between read and write.
SingleChunkInFlight ==
    \A s \in Sessions : \A d \in Dirs :
        Relaying(s) =>
            /\ rpc[s][d] = "reading" => unsent[s][Dst(d)] <= HighWater
            /\ unsent[s][Dst(d)] <= HighWater + RelayReadMax
            /\ Len(got[s][d]) <= Len(RelayWrote(s, d)) + RelayReadMax

\* The outbound relay has written a chunk that took the upstream's write
\* buffer above the mark and is held in drain(), with more to read.
SingleChunkInFlightWitness ==
    /\ rpc["A"]["c2s"] = "draining"
    /\ unsent["A"]["up"] > HighWater
    /\ got["A"]["c2s"] # <<>>
    /\ ~ENABLED flow_drained("A", "c2s")

\* Client.connect of a session that entered relaying has returned or raised.
ConnectEnded(s) ==
    Relaying(s) /\ hpc[s] \in {"h_wait_closed", "done", "raised_error", "raised_cancelled"}

\* C12: in every session that entered relaying, once Client.connect has
\* ended it has gone through its own close of the upstream writer, after
\* the cancelled relay finished unwinding.
ExplicitCloseReached ==
    \A s \in Sessions :
        ConnectEnded(s) =>
            /\ explicitClose[s]
            /\ \A d \in Dirs : rpc[s][d] \in Finished /\ ~cancelReq[s][d]

\* A relay that has left its loop, on whatever path, has closed its
\* destination writer.
DestinationClosed ==
    \A s \in Sessions : \A d \in Dirs :
        rpc[s][d] \in Closing \cup Finished => closed[s][Dst(d)]

\* No step of a relay closes the relay's source.
SourceLeftOpen ==
    [][\A s \in Sessions : \A d \in Dirs :
         rpc'[s][d] # rpc[s][d] => closed'[s][Src(d)] = closed[s][Src(d)]]_vars

\* C13: a relay closes its destination on every exit path (end-of-stream,
\* also at its start, failure of a read or a write, cancellation in a read
\* or a write) and never closes its source.
RelayClosesDestination == []DestinationClosed /\ SourceLeftOpen

\* The outbound relay failed and the inbound relay was cancelled, each has
\* closed its destination, and the inbound relay waits in wait_closed().
RelayClosesDestinationWitness ==
    /\ rpc["A"]["c2s"] = "failed"
    /\ rpc["A"]["s2c"] = "closing_can"
    /\ closed["A"]["up"] /\ closed["A"]["cli"]
    /\ ~lost["A"]["cli"]

\* Some stream of the session has failed.
IOFailed(s) == \E c \in Conns : Broken(s, c)

\* A relay that has left its loop reads and writes nothing more.
StoppedForGood ==
    [][\A s \in Sessions : \A d \in Dirs :
         rpc[s][d] \in Closing \cup Finished =>
             /\ got'[s][d] = got[s][d]
             /\ wrote'[s][Dst(d)] = wrote[s][Dst(d)]
             /\ rpc'[s][d] \in Closing \cup Finished]_vars

AuthDecision ==
    \A s \in Sessions :
        results[s] # Unread =>
            /\ wrote[s]["up"] # <<>> /\ wrote[s]["up"][1] = AuthRequest(password)
            /\ Len(results[s]) <= AuthReadMax /\ IsPrefix(results[s], script[s])
            /\ Relaying(s) <=> results[s] = Ack
            /\ results[s] # Ack => wrote[s]["cli"] = <<WrongPass>>
            /\ results[s] = Ack => WrongPass \notin Range(wrote[s]["cli"])

\* The reply is read once: what the read returned is never replaced.
SingleAuthRead ==
    [][\A s \in Sessions : results[s] # Unread => results'[s] = results[s]]_vars

\* C15: authentication is decided by one read of the upstream after the
\* AUTH request: relaying if and only if that read returned exactly
\* "+OK\r\n", the rejection message to the client on any other result.
SingleReadDecides == []AuthDecision /\ SingleAuthRead

\* The upstream's acknowledgment arrived together with a byte that followed
\* it: the read returned both and the session was rejected.
SingleReadDecidesWitness ==
    /\ results["A"] = Ack \o <<UpstreamBytes[1]>>
    /\ wrote["A"]["cli"] = <<WrongPass>>
    /\ \A d \in Dirs : rpc["A"][d] = "none"
    /\ closed["A"]["cli"]

\* What the source of relay d has sent to the relays: the client's bytes,
\* or the upstream's after the reply the authentication read took.
SourceSent(s, d) ==
    IF d = "c2s" THEN Take(ClientBytes, sent[s]["cli"])
    ELSE Drop(Take(script[s], sent[s]["up"]), Len(results[s]))

\* C16: in each direction what the relay has read is the beginning of what
\* its source sent, and what it has written to its destination is a prefix
\* of what it has read, byte for byte in the same order; nothing that was
\* read is missing from what was written, at teardown either.
StrictFifo ==
    \A s \in Sessions : \A d \in Dirs :
        Relaying(s) =>
            /\ got[s][d] \o buf[s][Src(d)] = SourceSent(s, d)
            /\ IsPrefix(RelayWrote(s, d), got[s][d])
            /\ rpc[s][d] \in Closing \cup Finished => RelayWrote(s, d) = got[s][d]

\* Both relays have read and written everything their sources sent, the
\* outbound one in more than one chunk's worth, and the session was torn
\* down with a cancellation.
StrictFifoWitness ==
    /\ got["A"]["c2s"] = Take(ClientBytes, MaxData)
    /\ got["A"]["s2c"] = Take(UpstreamBytes, MaxData)
    /\ RelayWrote("A", "c2s") = Take(ClientBytes, MaxData)
    /\ \E d \in Dirs : rpc["A"][d] = "cancelled"
    /\ \A d \in Dirs : rpc["A"][d] \in Finished

\* Both peers of the session are connected and have not closed.
PeersOpen(s) == \A c \in Conns : peer[s][c] = "open"

\* Nothing is left for the proxy to forward or to send in the session.
Silent(s) ==
    /\ \A c \in Conns : buf[s][c] = <<>> /\ unsent[s][c] = 0
    /\ \A d \in Dirs : rpc[s][d] = "reading"

\* C17: in a relaying session whose peers are both open nothing is closed
\* and nothing cancelled, both relays are in their loops and Client.connect
\* waits; when the peers are silent as well no task of the session can take
\* a step, so that the session stays as it is until a peer moves; and a
\* relay is cancelled only once the other relay has ended, a connection is
\* closed only once a relay has left its loop.
NoSpontaneousTeardown ==
    \A s \in Sessions :
        Relaying(s) =>
            /\ PeersOpen(s) =>
                   /\ hpc[s] = "waiting"
                   /\ \A d \in Dirs : rpc[s][d] \in {"ready", "reading", "draining"}
                   /\ \A d \in Dirs : ~cancelReq[s][d]
                   /\ \A c \in Conns : ~closed[s][c] /\ ~lost[s][c]
            /\ (PeersOpen(s) /\ Silent(s)) =>
                   ~ENABLED (HandlerStep(s, SoloLimit) \/ RelayStep(s) \/ LoopStep(s))
            /\ \A d \in Dirs : cancelReq[s][d] => rpc[s][Other(d)] \in Finished
            /\ (\E c \in Conns : closed[s][c]) =>
                   \E d \in Dirs : rpc[s][d] \in Closing \cup Finished
            /\ \A d \in Dirs :
                   rpc[s][d] \in {"closing_ok", "closing_err"} =>
                       EofFed(s, Src(d)) \/ Broken(s, Src(d)) \/ Broken(s, Dst(d))

\* The session has relayed all the traffic there was in both directions and
\* now sits with both peers open and silent.
NoSpontaneousTeardownWitness ==
    /\ Relaying("A") /\ PeersOpen("A") /\ Silent("A")
    /\ got["A"]["c2s"] = Take(ClientBytes, MaxData)
    /\ got["A"]["s2c"] = Take(UpstreamBytes, MaxData)
    /\ hpc["A"] = "waiting"

\* Once Client.connect has closed the upstream writer, the session reads
\* nothing more from, and writes nothing more to, either of its streams.
TerminalAfterClose ==
    [][\A s \in Sessions :
         explicitClose[s] =>
             /\ got'[s] = got[s]
             /\ results'[s] = results[s]
             /\ wrote'[s] = wrote[s]]_vars

\* Nothing is written to a stream whose writer the proxy has closed.
NoWriteAfterClose ==
    [][\A s \in Sessions : \A c \in Conns :
         closed[s][c] => wrote'[s][c] = wrote[s][c]]_vars

\* C18: once the session has closed the upstream connection at the end of
\* its teardown no read and no write is performed on its streams, and no
\* write is ever issued on a stream after the proxy closed it.
TerminalSession == TerminalAfterClose /\ NoWriteAfterClose

\* Client.connect closed the upstream writer and the handler has ended,
\* while bytes the upstream sent late sit unread in the reader's buffer.
TerminalSessionWitness ==
    /\ explicitClose["A"]
    /\ hpc["A"] = "done"
    /\ buf["A"]["up"] # <<>>
    /\ got["A"]["c2s"] # <<>>

\* C19: when Client.connect has returned or raised, both relay tasks of the
\* session have ended (returned, failed, or unwound from their cancellation)
\* and no cancellation is still to be delivered.
NoOrphanRelay ==
    \A s \in Sessions :
        ConnectEnded(s) =>
            \A d \in Dirs : rpc[s][d] \in Finished /\ ~cancelReq[s][d]

\* Both relays had already ended when Client.connect resumed from
\* asyncio.wait: nothing was pending, nothing was cancelled.
NoOrphanRelayWitness ==
    /\ ConnectEnded("A")
    /\ pending["A"] = {}
    /\ \A d \in Dirs : rpc["A"][d] = "done"
    /\ got["A"]["s2c"] # <<>>

\* A relay was pending when Client.connect resumed, was cancelled, and had
\* unwound by the time connect raised.
NoOrphanRelayCancelled ==
    /\ ConnectEnded("A")
    /\ pending["A"] # {}
    /\ \E d \in Dirs : rpc["A"][d] = "cancelled"

\* A peer of the session has closed its connection, or a stream has failed.
PeerGone(s) == \E c \in Conns : peer[s][c] \in {"eof", "reset"}

====
